---- MODULE Spec2Model ----
(***************************************************************************)
(* Model of the line integrity logic of GeologicalToolbox:                  *)
(*   src/ModellingToolbox/Resources/Geometries.py  (GeoPoint, Line)         *)
(*   src/Resources/GeoObject.py                    (AbstractGeoObject)      *)
(*                                                                          *)
(* One Line object is modelled.  Line.points is an SQLAlchemy               *)
(* ordering_list('line_pos') collection: a Python list that rewrites the    *)
(* line_pos of every member after each insert, remove and delete.           *)
(* Python objects are compared by identity (GeoPoint defines no __eq__);    *)
(* the field id of a point record stands for that identity.  Identities     *)
(* are only ever compared inside one call, so the members are renamed 1..n  *)
(* in list order when a call has returned (Return) and a call numbers its   *)
(* argument objects after them.                                             *)
(*                                                                          *)
(* A call is one step: it leaves the line as the method leaves it and       *)
(* records itself in call, old, pre and mid.  Return is the caller going    *)
(* on: the record is dropped and the next call can be made.                 *)
(***************************************************************************)
EXTENDS Integers, Sequences, FiniteSets, TLC

\* ---------------------------------------------------------------- bounds
MaxLen  == 3    \* longest point list a call may build before normalisation
MaxInit == 3    \* longest point list handed to the constructor
MaxIns  == 2    \* longest point list handed to insert_points
MaxRows == 2    \* most rows of the geopoints table

\* Resources.constants.float_precision: the tolerance of
\* delete_point_by_coordinates.  Coordinates are whole numbers here, so any
\* tolerance in (0, 1] separates them the same way.
float_precision == 1

\* ---------------------------------------------------------------- values
Eastings  == {0, 1}
Northings == {0}
Altitudes == {0, 1}

\* "none" is Python's None; the other values are StratigraphicObject instances
Horizons      == {"none", "h1"}
\* a value that is neither None nor a StratigraphicObject
BadHorizon    == "not_a_horizon"
\* horizons the points handed to the line were constructed with
PointHorizons == {"h1"}

\* GeoPoint.__init__ / AbstractGeoObject.__init__: the altitude is stored as
\* given, whatever has_z says; line_pos is -1 until a line sets it.
GeoPoint(horizon, has_z, easting, northing, altitude) ==
    [cls |-> "GeoPoint", id |-> 0, east |-> easting, north |-> northing,
     alt |-> altitude, has_z |-> has_z, hor |-> horizon, line_pos |-> -1]

\* an argument whose type is not GeoPoint
NotAPoint ==
    [cls |-> "object", id |-> 0, east |-> 0, north |-> 0, alt |-> 0,
     has_z |-> FALSE, hor |-> "none", line_pos |-> -1]

NewPoints ==
    { GeoPoint(h, z, e, n, a) :
        h \in PointHorizons, z \in BOOLEAN, e \in Eastings,
        n \in Northings, a \in Altitudes }

Args == NewPoints \cup {NotAPoint}

SeqsUpTo(S, k) == UNION { [1..n -> S] : n \in 0..k }

VARIABLES
    exists,   \* TRUE once Line.__init__ has returned a line
    points,   \* Line.points, the ordered collection of member GeoPoints
    closed,   \* Line.closed
    hor,      \* Line.hor, read through the property Line.horizon
    call,     \* the last call made on the line: name, arguments, outcome
    old,      \* points, closed and hor as the last call found them
    pre,      \* the point list of the last call when normalisation started
    mid,      \* the point list of the last call after the duplicate scan
    db,       \* the database behind the session: tables geopoints and lines
    load      \* the last call of Line.load_in_extent_from_db

vars == <<exists, points, closed, hor, call, old, pre, mid, db, load>>

\* ------------------------------------------------- the points collection
\* reorder with the renumbering left out
reorder_stale(s) == s

\* OrderingList.reorder: every member's line_pos becomes its 0-based index
reorder(s) == [i \in 1..Len(s) |-> [s[i] EXCEPT !.line_pos = i - 1]]

\* list.index by identity: 1-based index of the first member that is the
\* object id, 0 when there is none
index_of(s, id) ==
    IF \E i \in 1..Len(s) : s[i].id = id
    THEN CHOOSE i \in 1..Len(s) :
            /\ s[i].id = id
            /\ \A j \in 1..(i - 1) : s[j].id # id
    ELSE 0

\* the list without its k-th member (1-based)
drop_at(s, k) == [i \in 1..(Len(s) - 1) |-> IF i < k THEN s[i] ELSE s[i + 1]]

\* self.points.remove(obj) for a member obj: the first occurrence goes,
\* the ordering list renumbers the rest
list_remove(s, id) == reorder(drop_at(s, index_of(s, id)))

\* self.points.insert(position, obj): Python list.insert clamps the index
\* (negative counts from the end), the ordering list renumbers
list_insert(s, position, p) ==
    LET n  == Len(s)
        i0 == IF position < 0 THEN position + n ELSE position
        k  == IF i0 < 0 THEN 0 ELSE IF i0 > n THEN n ELSE i0
    IN  reorder([i \in 1..(n + 1) |->
                    IF i <= k THEN s[i] ELSE IF i = k + 1 THEN p ELSE s[i - 1]])

\* self.points[start:start] = items: Python slice assignment.  A negative
\* start counts from the end, the bounds are clamped to the list, and the
\* items go in before index start in the given order; the ordering list
\* renumbers
slice_insert(s, start, items) ==
    LET n  == Len(s)
        i0 == IF start < 0 THEN start + n ELSE start
        k  == IF i0 < 0 THEN 0 ELSE IF i0 > n THEN n ELSE i0
    IN  reorder(SubSeq(s, 1, k) \o items \o SubSeq(s, k + 1, n))

\* del self.points[-1]
del_last(s) == reorder(SubSeq(s, 1, Len(s) - 1))

\* ------------------------------------------------------- normalisation
\* (pnt.easting, pnt.northing, pnt.altitude): the getters return the stored
\* columns as floats; has_z is not consulted
coord(p) == <<p.east, p.north, p.alt>>

\* the scan removing the earlier point of an equal pair
RECURSIVE scan_dropping_first(_, _, _)
scan_dropping_first(tmp_pnts, live, i) ==
    IF i > Len(tmp_pnts) - 1 THEN live
    ELSE IF coord(tmp_pnts[i]) = coord(tmp_pnts[i + 1])
         THEN scan_dropping_first(tmp_pnts, list_remove(live, tmp_pnts[i].id), i + 1)
         ELSE scan_dropping_first(tmp_pnts, live, i + 1)

\* the scan of __remove_doubled_points: tmp_pnts is the copy taken before
\* the loop, live is self.points, i runs over range(len(tmp_pnts) - 1)
RECURSIVE doubled_scan(_, _, _)
doubled_scan(tmp_pnts, live, i) ==
    IF i > Len(tmp_pnts) - 1 THEN live
    ELSE IF coord(tmp_pnts[i]) = coord(tmp_pnts[i + 1])
         THEN doubled_scan(tmp_pnts, list_remove(live, tmp_pnts[i + 1].id), i + 1)
         ELSE doubled_scan(tmp_pnts, live, i + 1)

\* __remove_doubled_points with the fold forgetting to set closed
fold_keeping_flag(s, c) ==
    LET scanned == doubled_scan(s, s, 1)
    IN  IF Len(scanned) = 0
        THEN [points |-> scanned, closed |-> c, mid |-> scanned, err |-> "IndexError"]
        ELSE IF coord(scanned[1]) = coord(scanned[Len(scanned)])
             THEN [points |-> reorder(del_last(scanned)), closed |-> c,
                   mid |-> scanned, err |-> "none"]
             ELSE [points |-> reorder(scanned), closed |-> c,
                   mid |-> scanned, err |-> "none"]

\* Line.__remove_doubled_points on the list s with the flag c.  err is
\* "IndexError" when self.points[0] is read on an empty list; the method
\* then stops before the fold and before reorder().
remove_doubled_points(s, c) ==
    LET scanned == doubled_scan(s, s, 1)
    IN  IF Len(scanned) = 0
        THEN [points |-> scanned, closed |-> c, mid |-> scanned, err |-> "IndexError"]
        ELSE IF coord(scanned[1]) = coord(scanned[Len(scanned)])
             THEN [points |-> reorder(del_last(scanned)), closed |-> TRUE,
                   mid |-> scanned, err |-> "none"]
             ELSE [points |-> reorder(scanned), closed |-> c,
                   mid |-> scanned, err |-> "none"]

\* __check_line leaving the points' horizons alone
check_line_skipped(s, h) == s

\* Line.__check_line: every member point gets the line's horizon
check_line(s, h) == [i \in 1..Len(s) |-> [s[i] EXCEPT !.hor = h]]

\* ------------------------------------------------------------- the calls
\* the members named 1..n in list order
Self == [i \in 1..Len(points) |-> [points[i] EXCEPT !.id = i]]

\* no call is being looked at: the next one can be made
Idle == call.name = "none"

\* the argument objects of a call, named after the members
Named(args, base) == [i \in 1..Len(args) |-> [args[i] EXCEPT !.id = base + i]]

State(s) == [points |-> s, closed |-> closed, hor |-> hor]

Call(name, args, position, value, coords) ==
    [name |-> name, args |-> args, position |-> position, value |-> value,
     coords |-> coords, outcome |-> "ok"]

\* a call that raises before it touched the line
Raise(c, error) ==
    /\ call' = [c EXCEPT !.outcome = error]
    /\ old' = State(points)
    /\ pre' = <<>>
    /\ mid' = <<>>
    /\ UNCHANGED <<exists, points, closed, hor>>

\* the tail shared by the mutating calls: self.__remove_doubled_points()
\* followed by self.__check_line(), on the list s the call has built.  An
\* IndexError leaves __remove_doubled_points where it was raised; the
\* horizons are then not propagated.
Normalise(c, s) ==
    LET r == remove_doubled_points(s, closed)
    IN  /\ points' = IF r.err = "none" THEN check_line(r.points, hor) ELSE r.points
        /\ closed' = r.closed
        /\ call' = [c EXCEPT !.outcome = IF r.err = "none" THEN "ok" ELSE r.err]
        /\ old' = State(points)
        /\ pre' = s
        /\ mid' = r.mid
        /\ UNCHANGED <<exists, hor>>

NoCoords == <<0, 0, 0>>

NoCall == Call("none", <<>>, 0, "none", NoCoords)

\* the type test looking at the first element only
first_not_geopoint(pts) == Len(pts) >= 1 /\ pts[1].cls # "GeoPoint"

\* for pnt in points: if type(pnt) is not GeoPoint: raise
not_all_geopoints(pts) == \E i \in 1..Len(pts) : pts[i].cls # "GeoPoint"

\* the values callers hand to position: inside the list, at its end, beyond
Positions == 0..MaxLen

\* Line.__init__(closed, horizon, points).  When the constructor raises
\* there is no line.
LineInit ==
    /\ ~exists
    /\ Idle
    /\ UNCHANGED <<db, load>>
    /\ \E c \in BOOLEAN, h \in Horizons \cup {BadHorizon},
          pts \in SeqsUpTo(Args, MaxInit) :
        LET args == Named(pts, 0)
            k    == Call("__init__", args, 0, <<c, h>>, NoCoords)
            r    == remove_doubled_points(reorder(args), c)
            fail(error) ==
                /\ call' = [k EXCEPT !.outcome = error]
                /\ UNCHANGED <<exists, points, closed, hor, old, pre, mid>>
        IN  IF not_all_geopoints(args)
            THEN fail("ValueError")
            ELSE IF h = BadHorizon
            THEN fail("TypeError")
            ELSE IF r.err # "none"
            THEN fail(r.err)
            ELSE /\ exists' = TRUE
                 /\ points' = check_line(r.points, h)
                 /\ closed' = r.closed
                 /\ hor' = h
                 /\ call' = k
                 /\ old' = [points |-> <<>>, closed |-> c, hor |-> h]
                 /\ pre' = reorder(args)
                 /\ mid' = r.mid

\* the setter running the whole normalisation instead of __check_line alone
SetHorizonNormalising ==
    /\ exists
    /\ Idle
    /\ UNCHANGED <<db, load>>
    /\ \E value \in Horizons \cup {BadHorizon} :
        LET k == Call("horizon", <<>>, 0, value, NoCoords)
            r == remove_doubled_points(points, closed)
        IN  IF value = BadHorizon
            THEN Raise(k, "TypeError")
            ELSE /\ hor' = value
                 /\ points' = IF r.err = "none" THEN check_line(r.points, value)
                                                ELSE r.points
                 /\ closed' = r.closed
                 /\ call' = [k EXCEPT !.outcome = IF r.err = "none" THEN "ok"
                                                                     ELSE r.err]
                 /\ old' = State(points)
                 /\ pre' = <<>>
                 /\ mid' = <<>>
                 /\ UNCHANGED exists

\* Line.horizon setter
SetHorizon ==
    /\ exists
    /\ Idle
    /\ UNCHANGED <<db, load>>
    /\ \E value \in Horizons \cup {BadHorizon} :
        LET k == Call("horizon", <<>>, 0, value, NoCoords)
        IN  IF value = BadHorizon
            THEN Raise(k, "TypeError")
            ELSE /\ hor' = value
                 /\ points' = check_line(points, value)
                 /\ call' = k
                 /\ old' = State(points)
                 /\ pre' = <<>>
                 /\ mid' = <<>>
                 /\ UNCHANGED <<exists, closed>>

\* Line.insert_point(point, position)
InsertPoint ==
    /\ exists
    /\ Idle
    /\ UNCHANGED <<db, load>>
    /\ Len(points) < MaxLen
    /\ \E point \in Args, position \in Positions :
        LET args == Named(<<point>>, Len(points))
            k    == Call("insert_point", args, position, "none", NoCoords)
        IN  IF point.cls # "GeoPoint"
            THEN Raise(k, "TypeError")
            ELSE Normalise(k, list_insert(points, position, args[1]))

\* Line.insert_points(points, position)
InsertPoints ==
    /\ exists
    /\ Idle
    /\ UNCHANGED <<db, load>>
    /\ \E pts \in SeqsUpTo(Args, MaxIns), position \in Positions :
        LET args == Named(pts, Len(points))
            k    == Call("insert_points", args, position, "none", NoCoords)
        IN  /\ Len(points) + Len(pts) <= MaxLen
            /\ IF not_all_geopoints(args)
               THEN Raise(k, "TypeError")
               ELSE IF Len(points) <= position
               THEN Normalise(k, slice_insert(points, -1, args))
               ELSE Normalise(k, slice_insert(points, position, args))

\* the objects a caller can hand to delete_point: a member, a GeoPoint with
\* a member's values that is another object, a GeoPoint that never was in
\* the line, and something that is no GeoPoint
Deletable ==
    { points[i] : i \in 1..Len(points) }
      \cup { [points[i] EXCEPT !.id = Len(points) + 1] : i \in 1..Len(points) }
      \cup { [GeoPoint("none", FALSE, 0, 0, 0) EXCEPT !.id = Len(points) + 1],
             [NotAPoint EXCEPT !.id = Len(points) + 1] }

\* Line.delete_point(point)
DeletePoint ==
    /\ exists
    /\ Idle
    /\ UNCHANGED <<db, load>>
    /\ \E point \in Deletable :
        LET k == Call("delete_point", <<point>>, 0, "none", NoCoords)
        IN  IF point.cls # "GeoPoint"
            THEN Raise(k, "TypeError")
            ELSE IF index_of(points, point.id) = 0
            THEN Raise(k, "ValueError")
            ELSE Normalise(k, list_remove(points, point.id))

abs(x) == IF x < 0 THEN -x ELSE x

\* the test with the easting left out
match_without_easting(pnt, easting, northing, altitude) ==
    /\ abs(pnt.north - northing) < float_precision
    /\ \/ abs(pnt.alt - altitude) < float_precision
       \/ ~pnt.has_z

\* the test asking for the altitude of points without z too
match_requiring_altitude(pnt, easting, northing, altitude) ==
    /\ abs(pnt.east - easting) < float_precision
    /\ abs(pnt.north - northing) < float_precision
    /\ abs(pnt.alt - altitude) < float_precision

\* the test of the scan in delete_point_by_coordinates
coordinates_match(pnt, easting, northing, altitude) ==
    /\ abs(pnt.east - easting) < float_precision
    /\ abs(pnt.north - northing) < float_precision
    /\ \/ abs(pnt.alt - altitude) < float_precision
       \/ ~pnt.has_z

\* the northings callers ask delete_point_by_coordinates for: one the
\* points have and one they have not
QueryNorthings == {0, 1}

\* Line.delete_point_by_coordinates(easting, northing, altitude)
DeletePointByCoordinates ==
    /\ exists
    /\ Idle
    /\ UNCHANGED <<db, load>>
    /\ \E easting \in Eastings, northing \in QueryNorthings,
          altitude \in Altitudes :
        LET k    == Call("delete_point_by_coordinates", <<>>, 0, "none",
                         <<easting, northing, altitude>>)
            hits == { i \in 1..Len(points) :
                        coordinates_match(points[i], easting, northing, altitude) }
        IN  IF hits = {}
            THEN Raise(k, "ValueError")
            ELSE LET first == CHOOSE i \in hits : \A j \in hits : i <= j
                 IN  Normalise(k, list_remove(points, points[first].id))

\* the caller goes on after a call: the record of the call is dropped and
\* the members are renamed in list order
Return ==
    /\ ~Idle
    /\ UNCHANGED <<db, load>>
    /\ call' = NoCall
    /\ points' = Self
    /\ old' = [points |-> <<>>, closed |-> FALSE, hor |-> "none"]
    /\ pre' = <<>>
    /\ mid' = <<>>
    /\ UNCHANGED <<exists, closed, hor>>

\* ------------------------------------------------- the query by extent
\* the ids of the rows of table lines
LineIds == {1, 2}

\* the columns east and north of the rows, and the bounds callers ask for
DbEastings  == 0..2
DbNorthings == 0..1

\* the rows a geopoints table can hold: the foreign key is not enforced (the
\* default -1 names no line), so line_id is -1 for a point outside every
\* line, else any id in ls
PointRows(ls) ==
    [line_id : ls \cup {-1}, east : DbEastings, north : DbNorthings]

\* the databases a session can be connected to
Databases ==
    { [geopoints |-> g, lines |-> ls] :
        ls \in SUBSET LineIds, g \in SeqsUpTo(PointRows(LineIds), MaxRows) }

NoLoad ==
    [extent |-> <<0, 0, 0, 0>>, session |-> TRUE, outcome |-> "none",
     queries |-> 0, result |-> <<>>]

\* BETWEEN with the bounds left out
between_exclusive(x, low, high) == low < x /\ x < high

\* sq.between(column, low, high): SQL BETWEEN, both bounds included
between(x, low, high) == low <= x /\ x <= high

\* the first query: the set of the line_id values of the rows that are
\* attached to a line and lie in the extent
line_ids_in_extent(g, ext) ==
    { g[i].line_id : i \in { j \in 1..Len(g) :
        /\ g[j].line_id # -1
        /\ between(g[j].east, ext[1], ext[2])
        /\ between(g[j].north, ext[3], ext[4]) } }

\* ORDER BY id: the members of a set of ids in ascending order
order_by_id(S) ==
    [k \in 1..Cardinality(S) |->
        CHOOSE x \in S : Cardinality({ y \in S : y < x }) = k - 1]

\* Line.load_in_extent_from_db(session, min_easting, max_easting,
\* min_northing, max_northing); session is FALSE for an argument that is
\* no SQLAlchemy Session
LoadInExtent ==
    /\ load.outcome = "none"
    /\ \E session \in BOOLEAN, min_easting \in DbEastings,
          max_easting \in DbEastings, min_northing \in DbNorthings,
          max_northing \in DbNorthings :
        LET ext == <<min_easting, max_easting, min_northing, max_northing>>
            ids == line_ids_in_extent(db.geopoints, ext)
            l   == [NoLoad EXCEPT !.extent = ext, !.session = session]
        IN  IF ~session
            THEN load' = [l EXCEPT !.outcome = "TypeError"]
            ELSE IF Cardinality(ids) = 0
            THEN load' = [l EXCEPT !.outcome = "ok", !.queries = 1]
            ELSE load' = [l EXCEPT !.outcome = "ok", !.queries = 2,
                            !.result = order_by_id({ id \in db.lines : id \in ids })]
    /\ UNCHANGED <<exists, points, closed, hor, call, old, pre, mid, db>>

\* ------------------------------------------------------- specification
Init ==
    /\ exists = FALSE
    /\ points = <<>>
    /\ closed = FALSE
    /\ hor = "none"
    /\ call = NoCall
    /\ old = [points |-> <<>>, closed |-> FALSE, hor |-> "none"]
    /\ pre = <<>>
    /\ mid = <<>>
    /\ db = [geopoints |-> <<>>, lines |-> {}]
    /\ load = NoLoad

Next ==
    \/ LineInit
    \/ SetHorizon
    \/ InsertPoint
    \/ InsertPoints
    \/ DeletePoint
    \/ DeletePointByCoordinates
    \/ Return

Spec == Init /\ [][Next]_vars

\* the query by extent on every database within the bounds
ExtentInit ==
    /\ exists = FALSE
    /\ points = <<>>
    /\ closed = FALSE
    /\ hor = "none"
    /\ call = NoCall
    /\ old = [points |-> <<>>, closed |-> FALSE, hor |-> "none"]
    /\ pre = <<>>
    /\ mid = <<>>
    /\ db \in Databases
    /\ load = NoLoad

ExtentNext == LoadInExtent

ExtentSpec == ExtentInit /\ [][ExtentNext]_vars

\* ------------------------------------------------------------ properties
Ids(s) == [i \in 1..Len(s) |-> s[i].id]

\* the last call ran __remove_doubled_points and __check_line to the end
Normalised == call.outcome = "ok" /\ call.name \notin {"none", "horizon"}

\* (easting, northing, altitude), the altitude taken as 0 without z
effective(p) == <<p.east, p.north, IF p.has_z THEN p.alt ELSE 0>>

\* C1: the line_pos values of the member points are 0..n-1 in list order,
\* after construction and after every call
OrdinalDensity ==
    \A i \in 1..Len(points) : points[i].line_pos = i - 1

\* a removal has moved the former second point to the front
OrdinalDensityWitness ==
    /\ call.name = "delete_point"
    /\ call.outcome = "ok"
    /\ Len(old.points) = 3
    /\ Len(points) = 2
    /\ points[1].id = 2

\* C2: after normalisation no two list-adjacent points, the pair last/first
\* included, have the same effective coordinate triple, unless the line
\* holds a single point
NoAdjacentDuplicates ==
    (exists /\ Len(points) >= 2) =>
        \A i \in 1..Len(points) :
            effective(points[i]) # effective(points[(i % Len(points)) + 1])

\* C3: every member point's horizon is the line's horizon, after the
\* constructor and after every call, None included
HorizonPropagated ==
    \A i \in 1..Len(points) : points[i].hor = hor

\* a point constructed with a horizon has entered a line whose horizon is None
HorizonPropagatedWitness ==
    /\ call.name = "insert_point"
    /\ call.outcome = "ok"
    /\ hor = "none"
    /\ call.args[1].hor = "h1"
    /\ \E i \in 1..Len(points) : points[i].id = call.args[1].id

\* C4: insert_points with position >= the number of points puts the given
\* points after the last point in the given order; with a smaller position
\* it splices them in at position in the given order
InsertPointsAppends ==
    (call.name = "insert_points" /\ call.outcome \in {"ok", "IndexError"}) =>
        LET n == Len(old.points)
            k == call.position
        IN  IF k >= n
            THEN Ids(pre) = Ids(old.points) \o Ids(call.args)
            ELSE Ids(pre) = Ids(SubSeq(old.points, 1, k)) \o Ids(call.args)
                              \o Ids(SubSeq(old.points, k + 1, n))

\* C5: when normalisation runs on exactly one point, the point stays in the
\* line and closed keeps its value
SingletonKept ==
    (Normalised /\ Len(pre) = 1) =>
        /\ Ids(points) = Ids(pre)
        /\ closed = old.closed

RunHeads(s) ==
    LET keep == { i \in 1..Len(s) : i = 1 \/ coord(s[i]) # coord(s[i - 1]) }
    IN  [k \in 1..Cardinality(keep) |->
            s[CHOOSE i \in keep : Cardinality({ j \in keep : j < i }) = k - 1]]

NormalisationIdempotent ==
    exists =>
        LET r == remove_doubled_points(points, closed)
        IN  /\ r.err = "none"
            /\ check_line(r.points, hor) = points
            /\ r.closed = closed

\* C9: two neighbours of the scanned list with equal easting and northing,
\* both without z, count as duplicates whatever altitudes they store: the
\* later one is removed
NoZAltitudeIgnored ==
    Normalised =>
        \A i \in 1..(Len(pre) - 1) :
            ( /\ pre[i].east = pre[i + 1].east
              /\ pre[i].north = pre[i + 1].north
              /\ ~pre[i].has_z
              /\ ~pre[i + 1].has_z )
            => \A j \in 1..Len(mid) : mid[j].id # pre[i + 1].id

\* the call asked for a point the line does not hold
NotFound ==
    \/ /\ call.name = "delete_point"
       /\ call.args[1].cls = "GeoPoint"
       /\ \A i \in 1..Len(old.points) : old.points[i].id # call.args[1].id
    \/ /\ call.name = "delete_point_by_coordinates"
       /\ \A i \in 1..Len(old.points) :
            ~ ( /\ old.points[i].east = call.coords[1]
                /\ old.points[i].north = call.coords[2]
                /\ \/ old.points[i].alt = call.coords[3]
                   \/ ~old.points[i].has_z )

\* C10: delete_point with a GeoPoint that is no member and
\* delete_point_by_coordinates with coordinates no member matches raise
\* ValueError and leave points, ordinals, closed and horizons as they were
FailedRemovalChangesNothing ==
    NotFound =>
        /\ call.outcome = "ValueError"
        /\ points = old.points
        /\ closed = old.closed
        /\ hor = old.hor

\* a line of two or more points was asked for coordinates it does not hold
FailedRemovalWitness ==
    /\ call.name = "delete_point_by_coordinates"
    /\ call.outcome = "ValueError"
    /\ Len(points) >= 2
    /\ \E i \in 1..Len(points) : points[i].north = call.coords[2]
                                    /\ points[i].alt = call.coords[3]

\* the call was handed a value of the wrong type
WrongType ==
    \/ /\ call.name \in {"insert_point", "delete_point"}
       /\ call.args[1].cls # "GeoPoint"
    \/ /\ call.name = "insert_points"
       /\ \E i \in 1..Len(call.args) : call.args[i].cls # "GeoPoint"
    \/ /\ call.name = "horizon"
       /\ call.value \notin Horizons

\* C11: insert_point and delete_point with a non-GeoPoint, insert_points
\* with a non-GeoPoint at any index and the horizon setter with a value that
\* is neither None nor a StratigraphicObject raise TypeError and leave
\* points, ordinals, closed and the horizons of line and points as they were
TypeErrorChangesNothing ==
    WrongType =>
        /\ call.outcome = "TypeError"
        /\ points = old.points
        /\ closed = old.closed
        /\ hor = old.hor

\* insert_points was handed a GeoPoint followed by something else
TypeErrorWitness ==
    /\ call.name = "insert_points"
    /\ call.outcome = "TypeError"
    /\ Len(call.args) = 2
    /\ call.args[1].cls = "GeoPoint"
    /\ call.args[2].cls # "GeoPoint"
    /\ exists

\* the point p is one the coordinates c = <<easting, northing, altitude>>
\* ask for
AskedFor(p, c) ==
    /\ p.east = c[1]
    /\ p.north = c[2]
    /\ (p.alt = c[3] \/ ~p.has_z)

\* C12: delete_point_by_coordinates removes, before normalisation, exactly
\* the earliest point whose easting and northing match and whose altitude
\* matches or which has no z; later matching points stay
RemovesEarliestMatch ==
    ( /\ call.name = "delete_point_by_coordinates"
      /\ \E i \in 1..Len(old.points) : AskedFor(old.points[i], call.coords) ) =>
        \E i \in 1..Len(old.points) :
            /\ AskedFor(old.points[i], call.coords)
            /\ \A j \in 1..(i - 1) : ~AskedFor(old.points[j], call.coords)
            /\ call.outcome \in {"ok", "IndexError"}
            /\ Ids(pre) = [k \in 1..(Len(old.points) - 1) |->
                              IF k < i THEN old.points[k].id
                                       ELSE old.points[k + 1].id]

\* two points without z matched, the altitude asked for is not the stored
\* one of the first, and only the first was taken out
RemovesEarliestMatchWitness ==
    /\ call.name = "delete_point_by_coordinates"
    /\ call.outcome = "ok"
    /\ Len(old.points) = 3
    /\ AskedFor(old.points[1], call.coords)
    /\ AskedFor(old.points[2], call.coords)
    /\ old.points[1].alt # call.coords[3]
    /\ Ids(pre) = <<old.points[2].id, old.points[3].id>>

\* C13: setting the line's horizon to None or a StratigraphicObject changes
\* the line's horizon and the member points' horizons and nothing else: the
\* point sequence, the ordinals, the coordinates and closed stay
SetHorizonOnlyPropagates ==
    (call.name = "horizon" /\ call.value \in Horizons) =>
        /\ call.outcome = "ok"
        /\ hor = call.value
        /\ closed = old.closed
        /\ Len(points) = Len(old.points)
        /\ \A i \in 1..Len(points) :
            points[i] = [old.points[i] EXCEPT !.hor = call.value]

\* the horizon of a line of three points was changed
SetHorizonWitness ==
    /\ call.name = "horizon"
    /\ call.outcome = "ok"
    /\ Len(points) = 3
    /\ old.hor # hor
    /\ \A i \in 1..3 : points[i].hor # old.points[i].hor

\* C15: normalisation on an empty point sequence, reached by the
\* constructor with an empty list or by insert_points with an empty list on
\* a line without points, raises nothing, leaves the sequence empty and
\* closed as it was
EmptyNormalisationCompletes ==
    ( /\ call.name \in {"__init__", "insert_points"}
      /\ call.args = <<>>
      /\ Len(old.points) = 0
      /\ call.outcome # "TypeError" ) =>
        /\ call.outcome = "ok"
        /\ points = <<>>
        /\ closed = old.closed

\* the line with the id l has an attached point in the closed rectangle ext
HasPointIn(l, ext) ==
    \E i \in 1..Len(db.geopoints) :
        /\ db.geopoints[i].line_id = l
        /\ l # -1
        /\ ext[1] <= db.geopoints[i].east
        /\ db.geopoints[i].east <= ext[2]
        /\ ext[3] <= db.geopoints[i].north
        /\ db.geopoints[i].north <= ext[4]

\* C14: load_in_extent_from_db returns exactly the lines with at least one
\* attached point in the closed rectangle, each once, in ascending order of
\* id; when no attached point lies in it the result is empty and the second
\* query is not issued
LoadReturnsLinesInExtent ==
    load.outcome = "ok" =>
        LET hit == { l \in db.lines : HasPointIn(l, load.extent) }
        IN  /\ { load.result[i] : i \in 1..Len(load.result) } = hit
            /\ Len(load.result) = Cardinality(hit)
            /\ \A i \in 1..(Len(load.result) - 1) :
                load.result[i] < load.result[i + 1]
            /\ (\A i \in 1..Len(db.geopoints) :
                    ~HasPointIn(db.geopoints[i].line_id, load.extent))
                => (load.result = <<>> /\ load.queries = 1)

\* two lines were returned in the order of their ids by the second query,
\* one of them for a point on the upper easting bound of the rectangle
LoadWitness ==
    /\ load.outcome = "ok"
    /\ load.result = <<1, 2>>
    /\ load.queries = 2
    /\ \E i \in 1..Len(db.geopoints) :
        /\ db.geopoints[i].line_id # -1
        /\ db.geopoints[i].east = load.extent[2]
        /\ load.extent[1] < load.extent[2]

====
